---------------------------- MODULE Spec2Model ----------------------------
(***************************************************************************)
(* Model of the customer-support bot: the Gradio session state machine of  *)
(* src/app.py (process_file, handle_input) and the interactive agent of    *)
(* src/support_bot_agent.py (SupportBotAgent), together with the relevance *)
(* resolver find_relevant_section they share.                              *)
(*                                                                         *)
(* Text is a sequence of atoms.  An atom is a whitespace character ("\n"   *)
(* or " ") or a maximal run of non-whitespace characters (a word); two     *)
(* word atoms are never adjacent.  Optional values (Python None) are       *)
(* sequences of length 0 (None) or 1 (a value).                            *)
(***************************************************************************)
EXTENDS Integers, Sequences, FiniteSets, TLC

VARIABLES
    program,            \* which program runs: "app", "agent" (or a part of one)
    embedder,           \* the loaded embedding model: text -> embedding
    document_text,      \* state['document_text'] / self.document_text
    sections,           \* state['sections'] / self.sections
    section_embeddings, \* state['section_embeddings'] / self.section_embeddings
    current_query,      \* state['current_query']
    feedback_count,     \* state['feedback_count']
    mode,               \* state['mode']
    chat_history,       \* state['chat_history']
    last_answer,        \* state['last_answer']
    pc,                 \* SupportBotAgent: position in __init__ / run
    query,              \* SupportBotAgent.run: local query
    response,           \* SupportBotAgent.run: local response
    rounds,             \* SupportBotAgent.run: iterations of range(2) done
    resolved,           \* result of a direct call of find_relevant_section
    last_op,            \* history: the handler that ran last, its input and outcome
    qa_log,             \* history: QA calls since the current query was issued
    refinements,        \* history: refinements applied to the current query
    faults,             \* history: capability calls that raised so far
    threads             \* process_file and handle_input running as two threads

vars == <<program, embedder, document_text, sections, section_embeddings,
          current_query, feedback_count, mode, chat_history, last_answer,
          pc, query, response, rounds, resolved, last_op, qa_log, refinements,
          faults, threads>>

session == <<document_text, sections, section_embeddings, current_query,
             feedback_count, mode, chat_history, last_answer>>

agent == <<pc, query, response, rounds>>

-----------------------------------------------------------------------------
(* Optional values and text                                                *)

None == <<>>

Some(x) == <<x>>

Get(o) == o[1]

NL == "\n"

SP == " "

Whitespace == {NL, SP}

\* str.lower() on one word, for the words with upper-case letters in play
LowerWord(w) ==
    CASE w = "GOOD" -> "good"
      [] w = "Too" -> "too"
      [] w = "Vague" -> "vague"
      [] w = "Exit" -> "exit"
      [] w = "Shipping" -> "shipping"
      [] w = "Please" -> "please"
      [] w = "FAQ" -> "faq"
      [] w = ".PDF" -> ".pdf"
      [] w = ".TXT" -> ".txt"
      [] OTHER -> w

\* str.lower()
Lower(text) == [i \in 1..Len(text) |-> LowerWord(text[i])]

\* str.strip(): leading and trailing whitespace removed
RECURSIVE Strip(_)
Strip(text) ==
    IF text = <<>> THEN text
    ELSE IF Head(text) \in Whitespace THEN Strip(Tail(text))
    ELSE IF text[Len(text)] \in Whitespace THEN Strip(SubSeq(text, 1, Len(text) - 1))
    ELSE text

\* text[:n]
\* a variant of Prefix: the text is not cut
PrefixWhole(text, n) == text

Prefix(text, n) == SubSeq(text, 1, IF Len(text) < n THEN Len(text) ELSE n)

\* str.split() as the set the code builds from it: the words of the text
WordSet(text) == {text[i] : i \in {j \in 1..Len(text) : text[j] \notin Whitespace}}

\* the words of the text in order
RECURSIVE WordSeq(_)
WordSeq(text) ==
    IF text = <<>> THEN <<>>
    ELSE IF Head(text) \in Whitespace THEN WordSeq(Tail(text))
    ELSE <<Head(text)>> \o WordSeq(Tail(text))

\* text.split('\n\n'): cut at each leftmost non-overlapping pair of newlines
RECURSIVE SplitParagraphs(_)
SplitParagraphs(text) ==
    LET cuts == {i \in 1..(Len(text) - 1) : text[i] = NL /\ text[i + 1] = NL}
    IN  IF cuts = {} THEN <<text>>
        ELSE LET i == CHOOSE c \in cuts : \A d \in cuts : c <= d
             IN  <<SubSeq(text, 1, i - 1)>>
                     \o SplitParagraphs(SubSeq(text, i + 2, Len(text)))

-----------------------------------------------------------------------------
(* find_relevant_section                                                   *)

stopwords == {"and", "the", "is", "for", "to", "a", "an", "of", "in", "on",
              "at", "with", "by", "it", "as", "so", "what"}

\* similarity scores are in hundredths: 0.4 is 40
SIMILARITY_THRESHOLD == 40

MIN_COMMON_WORDS == 2

Sentinel == <<"I", SP, "don't", SP, "have", SP, "enough", SP, "information",
              SP, "to", SP, "answer", SP, "that.">>

\* Embeddings are abstracted to a direction class 0..3; util.cos_sim of two
\* embeddings in hundredths.  Equal classes are parallel; the table holds
\* values on both sides of the threshold and exactly on it.
CosSim(a, b) ==
    LET lo == IF a < b THEN a ELSE b
        hi == IF a < b THEN b ELSE a
    IN  CASE lo = hi -> 100
          [] lo = 0 /\ hi = 1 -> 40
          [] lo = 0 /\ hi = 2 -> 39
          [] lo = 0 /\ hi = 3 -> 10
          [] lo = 1 /\ hi = 2 -> 70
          [] lo = 1 /\ hi = 3 -> 41
          [] OTHER -> 55

\* embedder.encode(text)
Encode(model, text) == model[text]

\* embedder.encode(list of texts)
EncodeAll(model, texts) == [i \in 1..Len(texts) |-> Encode(model, texts[i])]

\* util.cos_sim(query_embedding, section_embeddings)[0]
Similarities(query_embedding, embeddings) ==
    [i \in 1..Len(embeddings) |-> CosSim(query_embedding, embeddings[i])]

\* a variant of ArgMax: the last index of a maximal value
ArgMaxLast(similarities) ==
    CHOOSE i \in 1..Len(similarities) :
        /\ \A j \in 1..Len(similarities) : similarities[j] <= similarities[i]
        /\ \A j \in (i + 1)..Len(similarities) : similarities[j] < similarities[i]

\* similarities.argmax(): the first index of a maximal value
ArgMax(similarities) ==
    CHOOSE i \in 1..Len(similarities) :
        /\ \A j \in 1..Len(similarities) : similarities[j] <= similarities[i]
        /\ \A j \in 1..(i - 1) : similarities[j] < similarities[i]

\* {word for word in text.lower().split() if word not in stopwords}
SignificantWords(text) == WordSet(Lower(text)) \ stopwords

\* the condition of the keyword loop for one section
KeywordMatch(q, section) ==
    Cardinality(SignificantWords(q) \cap SignificantWords(section)) >= MIN_COMMON_WORDS

\* a variant of KeywordSearch: the section that shares the most words
KeywordSearchBest(q, secs) ==
    LET common(i) == Cardinality(SignificantWords(q) \cap SignificantWords(secs[i]))
        hits == {i \in 1..Len(secs) : KeywordMatch(q, secs[i])}
    IN  IF hits = {} THEN Sentinel
        ELSE secs[CHOOSE i \in hits :
                      /\ \A j \in hits : common(j) <= common(i)
                      /\ \A j \in hits : common(j) = common(i) => i <= j]

\* the keyword fallback loop: the first section in order that matches
KeywordSearch(q, secs) ==
    LET hits == {i \in 1..Len(secs) : KeywordMatch(q, secs[i])}
    IN  IF hits = {} THEN Sentinel
        ELSE secs[CHOOSE i \in hits : \A j \in hits : i <= j]

\* the semantic tier accepts the best section
SemanticHit(score) == score >= SIMILARITY_THRESHOLD

FindRelevantSection(model, q, secs, embeddings) ==
    LET similarities == Similarities(Encode(model, q), embeddings)
        best_idx == ArgMax(similarities)
    IN  IF SemanticHit(similarities[best_idx]) THEN secs[best_idx]
        ELSE KeywordSearch(q, secs)

-----------------------------------------------------------------------------
(* The question-answering capability and the answers built around it       *)

\* qa_model(question=..., context=...)['answer']: a span of the context.  The
\* model is external; this one picks the word of the context whose position
\* is set by the number of words of the question.
QaModel(question, context) ==
    LET words == WordSeq(context)
    IN  IF words = <<>> THEN <<>>
        ELSE <<words[(Len(WordSeq(question)) % Len(words)) + 1]>>

INSTRUCTION_SUFFIX ==
    <<SP, "Please", SP, "provide", SP, "more", SP, "detailed", SP,
      "information", SP, "with", SP, "examples.">>

\* query + " Please provide more detailed information with examples."
Augment(q) == q \o INSTRUCTION_SUFFIX

EXCERPT_LEN == 500

\* f"{answer}\n\n(More details:\n{context[:500]}...)"
MoreDetails(answer, context) ==
    answer \o <<NL, NL, "(More", SP, "details:", NL>>
           \o Prefix(context, EXCERPT_LEN) \o <<"...)">>

GOOD == <<"good">>

TOO_VAGUE == <<"too", SP, "vague">>

NOT_HELPFUL == <<"not", SP, "helpful">>

EXIT == <<"exit">>

FEEDBACK_PROMPT == "Please provide feedback: good, too vague, not helpful."

\* f"Answer: {answer}\nPlease provide feedback: good, too vague, not helpful."
AnswerMessage(answer) == <<"Answer:", SP>> \o answer \o <<NL, FEEDBACK_PROMPT>>

\* f"Updated answer: {adjusted_answer}\nPlease provide feedback: ..."
UpdatedMessage(answer) ==
    <<"Updated", SP, "answer:", SP>> \o answer \o <<NL, FEEDBACK_PROMPT>>

GREETING == <<"Please upload a PDF or TXT file to start.">>

UPLOAD_FIRST == <<"Please upload a file first.">>

FILE_PROCESSED == <<"File processed. You can now ask questions.">>

THANK_YOU == <<"Thank you for your feedback. You can ask another question.">>

MAX_REACHED == <<"Maximum feedback iterations reached. You can ask another question.">>

INVALID_FEEDBACK == <<"Please provide valid feedback: good, too vague, not helpful.">>

MAX_FEEDBACK == 2

-----------------------------------------------------------------------------
(* The inputs of the model: uploaded files, user inputs, embedding models  *)

FaqText ==
    <<"returns", SP, "within", SP, "30", SP, "days", NL, NL,
      "shipping", SP, "takes", SP, "5-7", SP, "days">>

\* a file is its name (stem, extension), whether it decodes, and its content:
\* the text of a text file, or the page texts of a PDF
FaqTxt == [name |-> <<"faq", ".txt">>, readable |-> TRUE, content |-> <<FaqText>>]

ManualPdf ==
    [name |-> <<"FAQ", ".PDF">>, readable |-> TRUE,
     content |-> <<<<"contact", SP, "support", NL>>,
                   <<"more", SP, "information", SP, "online">>>>]

CorruptPdf == [name |-> <<"scan", ".pdf">>, readable |-> FALSE, content |-> <<>>]

NotesMd == [name |-> <<"notes", ".md">>, readable |-> TRUE, content |-> <<FaqText>>]

Files == {FaqTxt, ManualPdf, CorruptPdf, NotesMd}

Q_SHIPPING == <<"how", SP, "long", SP, "Shipping", SP, "takes">>

Q_REFUND == <<"refund", SP, "policy">>

Queries == {Q_SHIPPING, Q_REFUND}

\* an answer to the feedback prompt that is not one of the labels
THANKS == <<"thanks">>

Feedbacks == {<<"GOOD">>, <<"Too", SP, "Vague">>, NOT_HELPFUL, <<"good", SP>>}

Faults == {"none", "embed", "qa"}

\* extract_text_from_pdf: every page's text followed by a newline
RECURSIVE ExtractTextFromPdf(_)
ExtractTextFromPdf(pages) ==
    IF pages = <<>> THEN <<>>
    ELSE Head(pages) \o <<NL>> \o ExtractTextFromPdf(Tail(pages))

\* file_path.lower().endswith(ext)
EndsWith(name, ext) == LowerWord(name[Len(name)]) = ext

\* the text process_file reads from a supported, readable file
FileText(file) ==
    IF EndsWith(file.name, ".pdf") THEN ExtractTextFromPdf(file.content)
    ELSE file.content[1]

Supported(file) == EndsWith(file.name, ".pdf") \/ EndsWith(file.name, ".txt")

Range(seq) == {seq[i] : i \in 1..Len(seq)}

SectionTexts ==
    UNION {Range(SplitParagraphs(FileText(f))) : f \in {g \in Files : g.readable}}

\* every text the embedding model is asked to encode
TextUniverse ==
    SectionTexts \cup Queries \cup {Augment(q) : q \in Queries}

\* an embedding model that groups texts by topic
Topical(text) ==
    IF "shipping" \in WordSet(Lower(text)) THEN 0
    ELSE IF "returns" \in WordSet(Lower(text)) THEN 1
    ELSE 3

\* an embedding model that places every section far from every question
Flat(text) == IF text \in SectionTexts THEN 2 ELSE 0

Embedders ==
    {[t \in TextUniverse |-> Topical(t)], [t \in TextUniverse |-> Flat(t)]}

-----------------------------------------------------------------------------
(* src/app.py: the session state and its two handlers                      *)

\* the longest transcript a turn is still accepted on
MaxHistory == 7

\* the capability failures (exceptions of the embedding or QA model) in one run
MaxFaults == 1

\* a handler may meet this fault
MayFail(fault) == fault = "none" \/ faults < MaxFaults

\* the record of a handler's run: the handler, its input, the branch it took,
\* whether it raised, the capabilities it called, and the mode it started in
Op(name, input, branch, raised, calls) ==
    [op |-> name, input |-> input, branch |-> branch, raised |-> raised,
     calls |-> calls, from |-> mode]

\* process_file between two calls: no local variable is live
UploadIdle ==
    [pc |-> "idle", text |-> <<>>, sections |-> <<>>, section_embeddings |-> <<>>,
     upload |-> 0]

\* handle_input between two calls
InputIdle ==
    [pc |-> "idle", branch |-> "none", query |-> None, feedback |-> <<>>,
     sections |-> None, sections_of |-> 0, section_embeddings |-> None,
     section_embeddings_of |-> 0]

\* The two event handlers of one session as threads: the local variables of
\* the running call of each, the number of uploads started, and the upload
\* that wrote state['sections'] and state['section_embeddings'].
NoThreads ==
    [process_file |-> UploadIdle, handle_input |-> InputIdle, uploads |-> 0,
     sections_of |-> 0, section_embeddings_of |-> 0]

\* initial_state, with the models loaded
Init ==
    /\ program \in {"app", "agent"}
    /\ embedder \in Embedders
    /\ document_text = None
    /\ sections = None
    /\ section_embeddings = None
    /\ current_query = None
    /\ feedback_count = 0
    /\ mode = "waiting_for_upload"
    /\ chat_history = <<<<"Bot", GREETING>>>>
    /\ last_answer = None
    /\ pc = IF program = "agent" THEN "init" ELSE "off"
    /\ query = None
    /\ response = None
    /\ rounds = 0
    /\ resolved = None
    /\ last_op = Op("none", <<>>, "none", FALSE, <<>>)
    /\ qa_log = <<>>
    /\ refinements = 0
    /\ faults = 0
    /\ threads = NoThreads

\* a variant of AfterFailedUpload: the message returned for display is also
\* stored as the transcript
AfterFailedUploadShown ==
    /\ chat_history' = <<<<"Bot", <<"Please upload a file.">>>>>>
    /\ UNCHANGED <<document_text, sections, section_embeddings, current_query,
                   feedback_count, mode, last_answer>>

\* a variant of AfterFailedUpload: a failed upload puts the session back to
\* waiting for a document
AfterFailedUploadRestart ==
    /\ mode' = "waiting_for_upload"
    /\ UNCHANGED <<document_text, sections, section_embeddings, current_query,
                   feedback_count, chat_history, last_answer>>

\* the early returns of process_file and its exceptions: state is returned
\* as it was passed
AfterFailedUpload == UNCHANGED session

\* a variant of BuildIndex: an index that exists is kept
BuildIndexOnce(new_sections) ==
    IF section_embeddings = None THEN EncodeAll(embedder, new_sections)
    ELSE Get(section_embeddings)

\* the index process_file builds for the new sections
BuildIndex(new_sections) == EncodeAll(embedder, new_sections)

\* feedback_count after a successful upload
UploadCount(count) == 0

\* process_file(file, state); file = None is the call without a file.  A
\* fault is an exception raised by the capability it names; what the handler
\* assigned before it stays assigned.
ProcessFile(file, fault) ==
    /\ program = "app"
    /\ fault \in {"none", "embed"}
    /\ MayFail(fault)
    /\ IF file = None
       THEN /\ fault = "none"
            /\ last_op' = Op("process_file", <<>>, "no_file", FALSE, <<>>)
            /\ AfterFailedUpload
            /\ UNCHANGED <<qa_log, refinements, faults>>
       ELSE IF ~Supported(Get(file))
       THEN /\ fault = "none"
            /\ last_op' = Op("process_file", Get(file).name, "unsupported",
                             FALSE, <<>>)
            /\ AfterFailedUpload
            /\ UNCHANGED <<qa_log, refinements, faults>>
       ELSE IF ~Get(file).readable
       THEN /\ fault = "none"
            /\ last_op' = Op("process_file", Get(file).name, "decode", TRUE, <<>>)
            /\ AfterFailedUpload
            /\ UNCHANGED <<qa_log, refinements, faults>>
       ELSE IF fault = "embed"
       THEN /\ last_op' = Op("process_file", Get(file).name, "embed", TRUE,
                             <<"embed">>)
            /\ faults' = faults + 1
            /\ AfterFailedUpload
            /\ UNCHANGED <<qa_log, refinements>>
       ELSE LET text == FileText(Get(file))
                new_sections == SplitParagraphs(text)
            IN  /\ document_text' = Some(text)
                /\ sections' = Some(new_sections)
                /\ section_embeddings' = Some(BuildIndex(new_sections))
                /\ current_query' = None
                /\ feedback_count' = UploadCount(feedback_count)
                /\ mode' = "waiting_for_query"
                /\ chat_history' = <<<<"Bot", FILE_PROCESSED>>>>
                /\ UNCHANGED last_answer
                /\ last_op' = Op("process_file", Get(file).name, "loaded",
                                 FALSE, <<"embed">>)
                /\ qa_log' = <<>>
                /\ refinements' = 0
                /\ UNCHANGED faults
    /\ UNCHANGED <<program, embedder, agent, resolved, threads>>

\* a variant of FeedbackOver: the cap is tested with > for >=
FeedbackOverLate(feedback, count) == feedback = GOOD \/ count > MAX_FEEDBACK

\* the first test of the feedback branch: the round of feedback is over
FeedbackOver(feedback, count) == feedback = GOOD \/ count >= MAX_FEEDBACK

\* a variant of Refines: the last branch takes every other input
RefinesAnything(feedback) == TRUE

\* the tests of the two refinement branches
Refines(feedback) == feedback = TOO_VAGUE \/ feedback = NOT_HELPFUL

\* a variant of NextCount: the counter is not advanced
NextCountStuck(count) == count

\* feedback_count after a refinement
NextCount(count) == count + 1

\* a variant of NewQueryCount: the counter is carried over to the next query
NewQueryCountKept(count) == count

\* feedback_count after a query is submitted
NewQueryCount(count) == 0

\* the context a turn resolves for the question q
Context(q) ==
    FindRelevantSection(embedder, q, Get(sections), Get(section_embeddings))

\* a variant of AwaitUpload: the input is recorded as the query before the
\* mode is looked at
AwaitUploadRecords(user_input) ==
    /\ chat_history' = Append(chat_history, <<"Bot", UPLOAD_FIRST>>)
    /\ current_query' = Some(user_input)
    /\ last_op' = Op("handle_input", user_input, "upload_first", FALSE, <<>>)
    /\ UNCHANGED <<feedback_count, mode, last_answer, qa_log, refinements>>

\* a variant of AwaitUpload: the prompt is assigned as the transcript
AwaitUploadReplaces(user_input) ==
    /\ chat_history' = <<<<"Bot", UPLOAD_FIRST>>>>
    /\ last_op' = Op("handle_input", user_input, "upload_first", FALSE, <<>>)
    /\ UNCHANGED <<current_query, feedback_count, mode, last_answer, qa_log,
                   refinements>>

\* the branch of handle_input for mode waiting_for_upload
AwaitUpload(user_input) ==
    /\ chat_history' = Append(chat_history, <<"Bot", UPLOAD_FIRST>>)
    /\ last_op' = Op("handle_input", user_input, "upload_first", FALSE, <<>>)
    /\ UNCHANGED <<current_query, feedback_count, mode, last_answer, qa_log,
                   refinements>>

\* whether the answer to a query is the context itself, without extraction
PassThrough(context) == context = Sentinel

\* the branch of handle_input for mode waiting_for_query
SubmitQuery(user_input, fault) ==
    LET context == Context(user_input)
        call == [question |-> user_input, context |-> context,
                 returned |-> fault # "qa"]
        extracts == fault # "embed" /\ ~PassThrough(context)
        raised == fault = "embed" \/ (fault = "qa" /\ extracts)
        answer == IF PassThrough(context) THEN context
                  ELSE QaModel(user_input, context)
    IN  /\ fault = "qa" => ~PassThrough(context)
        /\ current_query' = Some(user_input)
        /\ feedback_count' = NewQueryCount(feedback_count)
        /\ refinements' = 0
        /\ qa_log' = IF extracts THEN <<call>> ELSE <<>>
        /\ last_op' = Op("handle_input", user_input, "query", raised,
                         IF extracts THEN <<"embed", "qa">> ELSE <<"embed">>)
        /\ IF raised
           THEN UNCHANGED <<last_answer, mode, chat_history>>
           ELSE /\ last_answer' = Some(answer)
                /\ mode' = "waiting_for_feedback"
                /\ chat_history' = chat_history
                       \o <<<<"User", user_input>>, <<"Bot", AnswerMessage(answer)>>>>

\* the adjusted answer of a refinement
AdjustedAnswer(feedback, q, answer, context) ==
    IF feedback = TOO_VAGUE THEN MoreDetails(answer, context)
    ELSE QaModel(Augment(q), context)

\* a variant of RefineUses: the context is resolved for "not helpful" alone
RefineUsesLazy(feedback) ==
    IF feedback = NOT_HELPFUL THEN <<"embed", "qa">> ELSE <<>>

\* the capabilities handle_input calls after the test for "good" and the cap:
\* find_relevant_section for every label, qa_model for "not helpful"
RefineUses(feedback) ==
    IF feedback = NOT_HELPFUL THEN <<"embed", "qa">> ELSE <<"embed">>

\* the branch of handle_input for mode waiting_for_feedback
SubmitFeedback(user_input, fault) ==
    LET feedback == Lower(user_input)
        heard == Append(chat_history, <<"User", feedback>>)
        q == Get(current_query)
        context == Context(q)
        call == [question |-> Augment(q), context |-> context,
                 returned |-> fault # "qa"]
        adjusted_answer == AdjustedAnswer(feedback, q, Get(last_answer), context)
    IN  IF FeedbackOver(feedback, feedback_count)
        THEN /\ fault = "none"
             /\ mode' = "waiting_for_query"
             /\ chat_history' = Append(heard,
                    <<"Bot", IF feedback = GOOD THEN THANK_YOU ELSE MAX_REACHED>>)
             /\ last_op' = Op("handle_input", user_input,
                              IF feedback = GOOD THEN "good" ELSE "cap",
                              FALSE, <<>>)
             /\ UNCHANGED <<current_query, feedback_count, last_answer, qa_log,
                            refinements>>
        ELSE IF fault = "embed"
        THEN /\ chat_history' = heard
             /\ last_op' = Op("handle_input", user_input, "resolve", TRUE,
                              <<"embed">>)
             /\ UNCHANGED <<current_query, feedback_count, mode, last_answer,
                            qa_log, refinements>>
        ELSE IF feedback = NOT_HELPFUL /\ fault = "qa"
        THEN /\ chat_history' = heard
             /\ qa_log' = Append(qa_log, call)
             /\ last_op' = Op("handle_input", user_input, "refine", TRUE,
                              <<"embed", "qa">>)
             /\ UNCHANGED <<current_query, feedback_count, mode, last_answer,
                            refinements>>
        ELSE IF Refines(feedback)
        THEN /\ fault = "none"
             /\ last_answer' = Some(adjusted_answer)
             /\ feedback_count' = NextCount(feedback_count)
             /\ refinements' = refinements + 1
             /\ qa_log' = IF feedback = NOT_HELPFUL THEN Append(qa_log, call)
                          ELSE qa_log
             /\ chat_history' = Append(heard, <<"Bot", UpdatedMessage(adjusted_answer)>>)
             /\ last_op' = Op("handle_input", user_input, "refine", FALSE,
                              RefineUses(feedback))
             /\ UNCHANGED <<current_query, mode>>
        ELSE /\ fault = "none"
             /\ chat_history' = Append(heard, <<"Bot", INVALID_FEEDBACK>>)
             /\ last_op' = Op("handle_input", user_input, "invalid", FALSE,
                              RefineUses(feedback))
             /\ UNCHANGED <<current_query, feedback_count, mode, last_answer,
                            qa_log, refinements>>

\* handle_input(user_input, state)
HandleInput(user_input, fault) ==
    /\ program = "app"
    /\ Len(chat_history) <= MaxHistory
    /\ MayFail(fault)
    /\ CASE mode = "waiting_for_upload" ->
                fault = "none" /\ AwaitUpload(user_input)
         [] mode = "waiting_for_query" ->
                user_input \in Queries /\ SubmitQuery(user_input, fault)
         [] mode = "waiting_for_feedback" ->
                user_input \in Feedbacks /\ SubmitFeedback(user_input, fault)
    /\ faults' = IF last_op'.raised THEN faults + 1 ELSE faults
    /\ UNCHANGED <<program, embedder, document_text, sections,
                   section_embeddings, agent, resolved, threads>>

AppNext ==
    \/ \E file \in {None} \cup {Some(f) : f \in Files}, fault \in Faults :
           ProcessFile(file, fault)
    \/ \E user_input \in Queries \cup Feedbacks, fault \in Faults :
           HandleInput(user_input, fault)

-----------------------------------------------------------------------------
(* src/support_bot_agent.py: SupportBotAgent                               *)

\* load_document accepts the path: .txt is tested first, then .pdf
Loadable(file) == EndsWith(file.name, ".txt") \/ EndsWith(file.name, ".pdf")

\* SupportBotAgent("..."): __init__ with load_document.  An exception leaves
\* the constructor, and the process ends.
Construct(file, fault) ==
    /\ program = "agent"
    /\ pc = "init"
    /\ fault \in {"none", "embed"}
    /\ MayFail(fault)
    /\ IF ~Loadable(file) \/ ~file.readable
       THEN /\ fault = "none"
            /\ pc' = "crashed"
            /\ last_op' = Op("load_document", file.name,
                             IF Loadable(file) THEN "decode" ELSE "unsupported",
                             TRUE, <<>>)
            /\ UNCHANGED <<document_text, sections, section_embeddings, faults>>
       ELSE LET text == FileText(file)
            IN  /\ document_text' = Some(text)
                /\ sections' = Some(SplitParagraphs(text))
                /\ IF fault = "embed"
                   THEN /\ pc' = "crashed"
                        /\ UNCHANGED section_embeddings
                   ELSE /\ pc' = "ask"
                        /\ section_embeddings' =
                               Some(EncodeAll(embedder, SplitParagraphs(text)))
                /\ last_op' = Op("__init__", file.name,
                                 IF fault = "embed" THEN "embed" ELSE "loaded",
                                 fault = "embed", <<"embed">>)
                /\ faults' = IF fault = "embed" THEN faults + 1 ELSE faults
    /\ UNCHANGED <<program, embedder, current_query, feedback_count, mode,
                   chat_history, last_answer, query, response, rounds,
                   resolved, qa_log, refinements, threads>>

\* answer_query: "if not context" is true of the empty string alone
NoContext(context) == context = <<>>

\* answer_query(q) when no capability fails
AnswerQuery(q) ==
    IF NoContext(Context(q)) THEN Sentinel ELSE QaModel(q, Context(q))

\* the QA call answer_query(q) makes
AnswerQueryCalls(q, fault) ==
    IF NoContext(Context(q)) THEN <<>>
    ELSE <<[question |-> q, context |-> Context(q), returned |-> fault # "qa"]>>

\* answer_query(q) raises
AnswerQueryRaises(q, fault) ==
    fault = "embed" \/ (fault = "qa" /\ ~NoContext(Context(q)))

\* the capabilities answer_query(q) calls
AnswerQueryUses(q, fault) ==
    IF fault = "embed" \/ NoContext(Context(q)) THEN <<"embed">>
    ELSE <<"embed", "qa">>

\* run: one pass of the while loop up to the first feedback prompt
RunQuery(user_input, fault) ==
    /\ program = "agent"
    /\ pc = "ask"
    /\ MayFail(fault)
    /\ IF Lower(user_input) = EXIT
       THEN /\ fault = "none"
            /\ pc' = "exited"
            /\ last_op' = Op("run", user_input, "exit", FALSE, <<>>)
            /\ UNCHANGED <<query, response, rounds, qa_log, refinements>>
       ELSE /\ fault = "qa" => ~NoContext(Context(user_input))
            /\ query' = Some(user_input)
            /\ refinements' = 0
            /\ qa_log' = IF fault = "embed" THEN <<>>
                         ELSE AnswerQueryCalls(user_input, fault)
            /\ last_op' = Op("run", user_input, "query",
                             AnswerQueryRaises(user_input, fault),
                             AnswerQueryUses(user_input, fault))
            /\ IF AnswerQueryRaises(user_input, fault)
               THEN /\ pc' = "crashed"
                    /\ UNCHANGED <<response, rounds>>
               ELSE /\ response' = Some(AnswerQuery(user_input))
                    /\ rounds' = 0
                    /\ pc' = "feedback"
    /\ faults' = IF last_op'.raised THEN faults + 1 ELSE faults
    /\ UNCHANGED <<program, embedder, session, resolved, threads>>

\* adjust_response(query, response, feedback) when no capability fails
AdjustResponse(q, r, feedback) ==
    IF feedback = TOO_VAGUE THEN MoreDetails(r, Context(q))
    ELSE IF feedback = NOT_HELPFUL THEN AnswerQuery(Augment(q))
    ELSE r

\* adjust_response raises
AdjustRaises(q, feedback, fault) ==
    \/ feedback = TOO_VAGUE /\ fault = "embed"
    \/ feedback = NOT_HELPFUL /\ AnswerQueryRaises(Augment(q), fault)

\* the capabilities adjust_response calls
AdjustUses(q, feedback, fault) ==
    IF feedback = TOO_VAGUE THEN <<"embed">>
    ELSE IF feedback = NOT_HELPFUL THEN AnswerQueryUses(Augment(q), fault)
    ELSE <<>>

\* the feedback loop over range(2) goes on after `done` iterations
LoopContinues(done) == done < MAX_FEEDBACK

\* run: one iteration of the feedback loop
RunFeedback(user_input, fault) ==
    LET feedback == Lower(Strip(user_input))
        q == Get(query)
        refines == feedback \in {TOO_VAGUE, NOT_HELPFUL}
    IN  /\ program = "agent"
        /\ pc = "feedback"
        /\ MayFail(fault)
        /\ IF feedback = GOOD
           THEN /\ fault = "none"
                /\ pc' = "ask"
                /\ last_op' = Op("run", user_input, "good", FALSE, <<>>)
                /\ UNCHANGED <<response, rounds, qa_log, refinements>>
           ELSE /\ refines \/ fault = "none"
                /\ feedback = TOO_VAGUE => fault # "qa"
                /\ fault = "qa" => ~NoContext(Context(Augment(q)))
                /\ qa_log' = IF feedback = NOT_HELPFUL /\ fault # "embed"
                             THEN qa_log \o AnswerQueryCalls(Augment(q), fault)
                             ELSE qa_log
                /\ last_op' = Op("run", user_input,
                                 IF refines THEN "refine" ELSE "invalid",
                                 AdjustRaises(q, feedback, fault),
                                 AdjustUses(q, feedback, fault))
                /\ IF AdjustRaises(q, feedback, fault)
                   THEN /\ pc' = "crashed"
                        /\ UNCHANGED <<response, rounds, refinements>>
                   ELSE /\ response' = Some(AdjustResponse(q, Get(response), feedback))
                        /\ rounds' = rounds + 1
                        /\ refinements' = IF refines THEN refinements + 1
                                          ELSE refinements
                        /\ pc' = IF LoopContinues(rounds + 1) THEN "feedback"
                                 ELSE "ask"
        /\ faults' = IF last_op'.raised THEN faults + 1 ELSE faults
        /\ UNCHANGED <<program, embedder, session, query, resolved, threads>>

AgentNext ==
    \/ \E file \in Files, fault \in Faults : Construct(file, fault)
    \/ \E user_input \in Queries \cup {<<"Exit">>}, fault \in Faults :
           RunQuery(user_input, fault)
    \/ \E user_input \in Feedbacks \cup {THANKS}, fault \in Faults :
           RunFeedback(user_input, fault)

Next == AppNext \/ AgentNext

Spec == Init /\ [][Next]_vars

-----------------------------------------------------------------------------
(* Properties of the session state machine                                 *)

Labels == {GOOD, TOO_VAGUE, NOT_HELPFUL}

\* the step is a call of handle_input on the app's session
InputTurn == program = "app" /\ last_op'.op = "handle_input"

\* the step is a call of handle_input in mode waiting_for_feedback
FeedbackTurn == InputTurn /\ mode = "waiting_for_feedback"

\* the QA calls of the current query that returned an answer
Returned == {i \in DOMAIN qa_log : qa_log[i].returned}

IsPrefix(a, b) == Len(a) <= Len(b) /\ SubSeq(b, 1, Len(a)) = a

\* the transcript holds the bot's message `text`
BotSaid(text) == \E i \in DOMAIN chat_history : chat_history[i] = <<"Bot", text>>

\* C1: in every reachable session state of app.py feedback_count is between
\* 0 and 2, and in mode waiting_for_feedback it is the number of refinements
\* applied to the current query since it was submitted.
C1_CounterCountsRefinements ==
    program = "app" =>
        /\ feedback_count \in 0..2
        /\ mode = "waiting_for_feedback" => feedback_count = refinements

\* a query is being answered with a fresh counter after an earlier query of
\* the same transcript was refined and then accepted
C1_Witness ==
    /\ program = "app"
    /\ mode = "waiting_for_feedback"
    /\ feedback_count = 0
    /\ \E i, j \in DOMAIN chat_history :
           /\ i < j
           /\ IsPrefix(<<"Updated">>, chat_history[i][2])
           /\ chat_history[j] = <<"Bot", THANK_YOU>>

\* C2: after two refinements of a query the next feedback submission, whatever
\* its label, moves the session to waiting_for_query, calls no capability (the
\* refiner does not run) and leaves last_answer as it is.
C2_ThirdFeedbackEndsRound ==
    [][(FeedbackTurn /\ refinements = 2) =>
           /\ mode' = "waiting_for_query"
           /\ last_answer' = last_answer
           /\ last_op'.calls = <<>>
           /\ qa_log' = qa_log]_vars

\* the third feedback was "too vague" and ended the round
C2_Witness ==
    /\ program = "app"
    /\ last_op.op = "handle_input"
    /\ last_op.from = "waiting_for_feedback"
    /\ Lower(last_op.input) = TOO_VAGUE
    /\ refinements = 2
    /\ mode = "waiting_for_query"

\* C3 as stated: every feedback transition from waiting_for_feedback to
\* waiting_for_query leaves feedback_count at 0.
C3_ResetAtTransition ==
    [][(FeedbackTurn /\ mode' = "waiting_for_query") => feedback_count' = 0]_vars

\* C3 as amended: a feedback transition from waiting_for_feedback to
\* waiting_for_query leaves feedback_count as it is; the counter is set to 0
\* by the next submission of a query.
C3_ResetAtNextQuery ==
    [][InputTurn =>
           /\ (mode = "waiting_for_feedback" /\ mode' = "waiting_for_query")
                  => feedback_count' = feedback_count
           /\ mode = "waiting_for_query" => feedback_count' = 0]_vars

\* the round was ended by the cap and the counter still reads 2
C3_Witness ==
    /\ program = "app"
    /\ last_op.op = "handle_input"
    /\ last_op.from = "waiting_for_feedback"
    /\ mode = "waiting_for_query"
    /\ feedback_count = 2

\* C4 as stated: in waiting_for_feedback, with any feedback_count, an input
\* that is no label leaves mode, feedback_count, current_query and last_answer
\* unchanged.
C4_InvalidChangesNothing ==
    [][(FeedbackTurn /\ Lower(last_op'.input) \notin Labels) =>
           UNCHANGED <<mode, feedback_count, current_query, last_answer>>]_vars

\* C4 as amended: with feedback_count below 2 an input that is no label
\* leaves mode, feedback_count, current_query and last_answer unchanged and,
\* when the turn does not raise, appends the user's text and the re-prompt;
\* with feedback_count 2 it ends the round.
C4_InvalidBelowCap ==
    [][(FeedbackTurn /\ Lower(last_op'.input) \notin Labels) =>
           /\ UNCHANGED <<feedback_count, current_query, last_answer>>
           /\ feedback_count < 2 =>
                  /\ UNCHANGED mode
                  /\ ~last_op'.raised =>
                         chat_history' = chat_history \o
                             <<<<"User", Lower(last_op'.input)>>,
                               <<"Bot", INVALID_FEEDBACK>>>>
           /\ feedback_count = 2 => mode' = "waiting_for_query"]_vars

\* an input that is no label was re-prompted after one refinement
C4_Witness ==
    /\ program = "app"
    /\ last_op.op = "handle_input"
    /\ last_op.from = "waiting_for_feedback"
    /\ Lower(last_op.input) \notin Labels
    /\ ~last_op.raised
    /\ mode = "waiting_for_feedback"
    /\ feedback_count = 1

\* C5: in waiting_for_feedback with feedback_count < 2, a turn with the label
\* too vague or not helpful that runs to its end sets last_answer to the
\* adjusted answer, adds exactly 1 to feedback_count, stays in
\* waiting_for_feedback and leaves current_query, the document text, the
\* sections and the index unchanged.
C5_RefinementTurn ==
    [][(/\ FeedbackTurn
        /\ feedback_count < 2
        /\ Lower(last_op'.input) \in {TOO_VAGUE, NOT_HELPFUL}
        /\ ~last_op'.raised) =>
           /\ feedback_count' = feedback_count + 1
           /\ mode' = "waiting_for_feedback"
           /\ last_answer' # None
           /\ Lower(last_op'.input) = TOO_VAGUE =>
                  /\ IsPrefix(Get(last_answer), Get(last_answer'))
                  /\ Len(Get(last_answer')) > Len(Get(last_answer))
           /\ Lower(last_op'.input) = NOT_HELPFUL =>
                  /\ Len(qa_log') = Len(qa_log) + 1
                  /\ Get(last_answer') =
                         QaModel(qa_log'[Len(qa_log')].question,
                                 qa_log'[Len(qa_log')].context)
           /\ UNCHANGED <<current_query, document_text, sections,
                          section_embeddings>>]_vars

\* the second refinement of a query was a re-extraction
C5_Witness ==
    /\ program = "app"
    /\ last_op.op = "handle_input"
    /\ last_op.from = "waiting_for_feedback"
    /\ Lower(last_op.input) = NOT_HELPFUL
    /\ ~last_op.raised
    /\ mode = "waiting_for_feedback"
    /\ feedback_count = 2

\* C6 as stated: for one query the QA capability is invoked at most 3 times,
\* in app.py and in SupportBotAgent.run.
C6_AtMostThreeInvocations == Len(qa_log) <= 3

\* C6 as amended: for one query the QA capability returns an answer at most 3
\* times; in SupportBotAgent.run, where a call that raises ends the process,
\* it is also invoked at most 3 times.
C6_AtMostThreeAnswers ==
    /\ Cardinality(Returned) <= 3
    /\ program = "agent" => Len(qa_log) <= 3

\* three answers were extracted for one query, with a re-prompt in between
C6_Witness ==
    /\ program = "app"
    /\ Cardinality(Returned) = 3
    /\ BotSaid(INVALID_FEEDBACK)

\* C7: the QA capability is never invoked with the sentinel as its context.
C7_NoSentinelContext ==
    \A i \in DOMAIN qa_log : qa_log[i].context # Sentinel

\* the file of the last upload
UploadedFile(o) == CHOOSE f \in Files : f.name = o.input

\* the handler run recorded in o is an upload that succeeded
UploadDone(o) ==
    /\ o.op = "process_file"
    /\ o.input # <<>>
    /\ Supported(UploadedFile(o))
    /\ ~o.raised

\* the handler run recorded in o is an upload that failed: no file, an
\* unsupported type, a decoding failure or an embedding failure
UploadFailed(o) ==
    /\ o.op = "process_file"
    /\ o.input = <<>> \/ o.raised \/ ~Supported(UploadedFile(o))

RECURSIVE JoinParagraphs(_)
JoinParagraphs(secs) ==
    IF Len(secs) = 1 THEN secs[1]
    ELSE secs[1] \o <<NL, NL>> \o JoinParagraphs(Tail(secs))

HasBlankLine(text) ==
    \E i \in 1..(Len(text) - 1) : text[i] = NL /\ text[i + 1] = NL

\* C8: a successful upload, in any mode, leaves mode waiting_for_query,
\* feedback_count 0, current_query null, the text of the uploaded file as the
\* document, its paragraphs as the sections and one embedding of each section,
\* in order, as the index.
C8_UploadResets ==
    (program = "app" /\ UploadDone(last_op)) =>
        /\ mode = "waiting_for_query"
        /\ feedback_count = 0
        /\ current_query = None
        /\ document_text = Some(FileText(UploadedFile(last_op)))
        /\ JoinParagraphs(Get(sections)) = Get(document_text)
        /\ \A i \in DOMAIN Get(sections) : ~HasBlankLine(Get(sections)[i])
        /\ Len(Get(section_embeddings)) = Len(Get(sections))
        /\ \A i \in DOMAIN Get(sections) :
               Get(section_embeddings)[i] = embedder[Get(sections)[i]]

\* another document was uploaded while feedback on a refined answer was awaited
C8_Witness ==
    /\ program = "app"
    /\ UploadDone(last_op)
    /\ last_op.from = "waiting_for_feedback"
    /\ last_answer # None
    /\ IsPrefix(<<"contact">>, Get(document_text))
    /\ \E i \in DOMAIN Get(last_answer) : Get(last_answer)[i] = "(More"

\* C9: a failed upload leaves every field of the session state unchanged; a
\* document load_document rejects installs no text, sections or index.
C9_FailedUploadKeepsState ==
    [][/\ (program = "app" /\ UploadFailed(last_op')) => UNCHANGED session
       /\ (program = "agent" /\ last_op'.op = "load_document") =>
              UNCHANGED <<document_text, sections, section_embeddings>>]_vars

\* embedding the sections of another document failed while feedback was awaited
C9_Witness ==
    /\ program = "app"
    /\ UploadFailed(last_op)
    /\ last_op.calls = <<"embed">>
    /\ last_op.from = "waiting_for_feedback"
    /\ mode = "waiting_for_feedback"
    /\ document_text # Some(FileText(UploadedFile(last_op)))

-----------------------------------------------------------------------------
(* find_relevant_section called on its own                                 *)

\* the longest section sequence the resolver is called on
MaxSections == 3

S_DAYS == <<"shipping", SP, "takes", SP, "days">>

S_LONG == <<"shipping", SP, "takes", SP, "long">>

S_RETURNS == <<"returns", SP, "policy">>

ResolverSections == {S_DAYS, S_LONG, S_RETURNS}

Embeddings == 0..3

SectionSeqs(n) == UNION {[1..k -> ResolverSections] : k \in 1..n}

\* a loaded embedding model, a query and the sections and index of a document
ResolverInit ==
    /\ program = "resolver"
    /\ embedder \in [ResolverSections \cup {Q_SHIPPING} -> Embeddings]
    /\ current_query = Some(Q_SHIPPING)
    /\ \E secs \in SectionSeqs(MaxSections) :
           /\ sections = Some(secs)
           /\ section_embeddings = Some(EncodeAll(embedder, secs))
    /\ document_text = None
    /\ feedback_count = 0
    /\ mode = "waiting_for_query"
    /\ chat_history = <<>>
    /\ last_answer = None
    /\ pc = "off"
    /\ query = None
    /\ response = None
    /\ rounds = 0
    /\ resolved = None
    /\ last_op = Op("none", <<>>, "none", FALSE, <<>>)
    /\ qa_log = <<>>
    /\ refinements = 0
    /\ faults = 0
    /\ threads = NoThreads

\* find_relevant_section(query, sections, section_embeddings)
Resolve ==
    /\ program = "resolver"
    /\ resolved = None
    /\ resolved' = Some(Context(Get(current_query)))
    /\ UNCHANGED <<program, embedder, session, agent, last_op, qa_log,
                   refinements, faults, threads>>

ResolverNext == Resolve

ResolverSpec == ResolverInit /\ [][ResolverNext]_vars

\* the similarity of the query to section i
Score(i) == CosSim(embedder[Get(current_query)], embedder[Get(sections)[i]])

\* the sections that attain the maximum similarity
Best == {i \in DOMAIN Get(sections) : \A j \in DOMAIN Get(sections) : Score(j) <= Score(i)}

\* the lowest index that attains the maximum similarity
FirstBest == CHOOSE i \in Best : \A j \in Best : i <= j

\* C10: when the maximum similarity is >= 0.4, find_relevant_section returns
\* the section at the lowest index that attains the maximum, whatever the
\* keyword search would return.
C10_SemanticTier ==
    (program = "resolver" /\ resolved # None /\ Score(FirstBest) >= 40) =>
        resolved = Some(Get(sections)[FirstBest])

\* the maximum is exactly 0.4, two different sections attain it, and the
\* keyword search matches an earlier section than the one returned
C10_Witness ==
    /\ program = "resolver"
    /\ resolved # None
    /\ Score(FirstBest) = 40
    /\ \E i \in Best : Get(sections)[i] # Get(sections)[FirstBest]
    /\ KeywordSearch(Get(current_query), Get(sections)) # Sentinel
    /\ KeywordSearch(Get(current_query), Get(sections)) # Get(resolved)
    /\ resolved = Some(Get(sections)[FirstBest])

\* the words of a text that count in the keyword tier: lowercased,
\* whitespace-split, not a stopword
Tokens(text) == {LowerWord(w) : w \in WordSet(text)} \ stopwords

\* the sections that share at least 2 tokens with the query
Sharing ==
    {i \in DOMAIN Get(sections) :
        Cardinality(Tokens(Get(current_query)) \cap Tokens(Get(sections)[i])) >= 2}

\* C11: when no section reaches similarity 0.4, find_relevant_section returns
\* the first section in order that shares at least 2 tokens with the query,
\* and the sentinel exactly when no section does.
C11_KeywordTier ==
    (program = "resolver" /\ resolved # None /\ Score(FirstBest) < 40) =>
        /\ Sharing # {} =>
               resolved = Some(Get(sections)[CHOOSE i \in Sharing :
                                                 \A j \in Sharing : i <= j])
        /\ resolved = Some(Sentinel) <=> Sharing = {}

\* the section returned shares 2 tokens and a later section shares 3
C11_Witness ==
    /\ program = "resolver"
    /\ Score(FirstBest) < 40
    /\ resolved = Some(S_DAYS)
    /\ \E i, j \in Sharing :
           /\ i < j
           /\ Get(sections)[i] = S_DAYS
           /\ Get(sections)[j] = S_LONG
           /\ \A k \in Sharing : i <= k

-----------------------------------------------------------------------------
(* Properties of the session state machine, continued                      *)

\* C12: in waiting_for_upload, handle_input with any input keeps the mode,
\* appends the prompt to upload a file first, calls neither the resolver nor
\* a model capability and leaves current_query, last_answer and
\* feedback_count unchanged.
C12_InputBeforeUpload ==
    [][(InputTurn /\ mode = "waiting_for_upload") =>
           /\ mode' = "waiting_for_upload"
           /\ chat_history' = Append(chat_history, <<"Bot", UPLOAD_FIRST>>)
           /\ last_op'.calls = <<>>
           /\ qa_log' = qa_log
           /\ UNCHANGED <<current_query, last_answer, feedback_count>>]_vars

\* a question was typed before any upload and answered with the prompt
C12_Witness ==
    /\ program = "app"
    /\ last_op.op = "handle_input"
    /\ last_op.input = Q_SHIPPING
    /\ mode = "waiting_for_upload"
    /\ chat_history = <<<<"Bot", GREETING>>, <<"Bot", UPLOAD_FIRST>>>>
    /\ current_query = None

\* C13: a query turn or feedback turn of handle_input in which the embedding
\* or QA capability raises leaves mode, feedback_count, current_query and
\* last_answer as they were.
C13_FailedTurnKeepsState ==
    [][(InputTurn /\ last_op'.raised) =>
           UNCHANGED <<mode, feedback_count, current_query, last_answer>>]_vars

\* sections and index are absent together with the mode waiting_for_upload,
\* and otherwise are the paragraphs of the document and their embeddings
SectionsAndIndex ==
    program = "app" =>
        /\ sections = None <=> mode = "waiting_for_upload"
        /\ section_embeddings = None <=> mode = "waiting_for_upload"
        /\ mode # "waiting_for_upload" =>
               /\ document_text # None
               /\ Len(Get(sections)) >= 1
               /\ Len(Get(section_embeddings)) = Len(Get(sections))
               /\ JoinParagraphs(Get(sections)) = Get(document_text)
               /\ \A i \in DOMAIN Get(sections) :
                      /\ ~HasBlankLine(Get(sections)[i])
                      /\ Get(section_embeddings)[i] = embedder[Get(sections)[i]]

\* C15: between handler runs, sections and index are both absent exactly in
\* mode waiting_for_upload and otherwise both present, of the same length
\* >= 1 and computed from the current document text; a session that has left
\* waiting_for_upload never returns to it.
C15_SectionsMatchIndex ==
    /\ []SectionsAndIndex
    /\ [][(program = "app" /\ mode # "waiting_for_upload") =>
              mode' # "waiting_for_upload"]_vars

\* a second document replaced the first, and a later upload failed
C15_Witness ==
    /\ program = "app"
    /\ UploadFailed(last_op)
    /\ last_op.from = "waiting_for_feedback"
    /\ mode = "waiting_for_feedback"
    /\ document_text = Some(FileText(ManualPdf))
    /\ Len(Get(section_embeddings)) = 2

\* the query the feedback rounds refine
OriginalQuery == IF program = "app" THEN current_query ELSE query

\* C16: a "not helpful" refinement calls the QA capability with the context
\* resolved for the unaugmented query; the question alone carries the suffix.
C16_SameContext ==
    (program \in {"app", "agent"} /\ OriginalQuery # None) =>
        \A i \in DOMAIN qa_log :
            qa_log[i].question = Augment(Get(OriginalQuery)) =>
                qa_log[i].context = Context(Get(OriginalQuery))

\* C17: in SupportBotAgent.run, feedback that is not a label consumes no
\* feedback round: the rounds used stay as they are and the prompt is repeated.
C17_InvalidKeepsRound ==
    [][(/\ program = "agent"
        /\ pc = "feedback"
        /\ last_op'.op = "run"
        /\ Lower(Strip(last_op'.input)) \notin Labels) =>
           (rounds' = rounds /\ pc' = "feedback")]_vars

\* the step is a feedback turn of app.py that passes the test of line 114
AppRefineTurn ==
    /\ FeedbackTurn
    /\ Lower(last_op'.input) # GOOD
    /\ feedback_count < 2

\* the step is an iteration of the agent's feedback loop without "good"
AgentRefineTurn ==
    /\ program = "agent"
    /\ pc = "feedback"
    /\ last_op'.op = "run"
    /\ Lower(Strip(last_op'.input)) # GOOD

\* C18 as stated: "too vague" and invalid feedback call no model capability,
\* neither the embedder nor the QA model.
C18_NoModelCall ==
    [][/\ (AppRefineTurn /\ Lower(last_op'.input) # NOT_HELPFUL) =>
              last_op'.calls = <<>>
       /\ (AgentRefineTurn /\ Lower(Strip(last_op'.input)) # NOT_HELPFUL) =>
              last_op'.calls = <<>>]_vars

\* C18: "too vague" and invalid feedback make no QA call, and "not helpful"
\* alone makes one; "too vague" calls the embedder to resolve the context
\* again, in both programs, and so does invalid feedback in app.py.
C18_NoQaCall ==
    [][/\ (AppRefineTurn /\ Lower(last_op'.input) # NOT_HELPFUL) =>
              (last_op'.calls = <<"embed">> /\ qa_log' = qa_log)
       /\ (AgentRefineTurn /\ Lower(Strip(last_op'.input)) = TOO_VAGUE) =>
              (last_op'.calls = <<"embed">> /\ qa_log' = qa_log)
       /\ (AgentRefineTurn /\ Lower(Strip(last_op'.input)) \notin Labels) =>
              (last_op'.calls = <<>> /\ qa_log' = qa_log)
       /\ (AppRefineTurn /\ "qa" \in Range(last_op'.calls)) =>
              Lower(last_op'.input) = NOT_HELPFUL
       /\ (AgentRefineTurn /\ "qa" \in Range(last_op'.calls)) =>
              Lower(Strip(last_op'.input)) = NOT_HELPFUL]_vars

\* "too vague" was applied in app.py: one embedding call, no QA call
C18_Witness ==
    /\ program = "app"
    /\ last_op.op = "handle_input"
    /\ last_op.branch = "refine"
    /\ Lower(last_op.input) = TOO_VAGUE
    /\ last_op.calls = <<"embed">>
    /\ ~last_op.raised
    /\ Len(qa_log) = 1
    /\ feedback_count = 1

\* C20 as stated: the transcript only grows; no handler removes or changes a
\* turn that is in it.
C20_TranscriptOnlyGrows ==
    [][program = "app" => IsPrefix(chat_history, chat_history')]_vars

\* C20: handle_input only appends to the transcript (one or two turns when no
\* capability raises); a successful upload replaces the transcript by the one
\* turn "File processed. You can now ask questions."; a failed upload leaves
\* it as it is.
C20_InputAppendsUploadReplaces ==
    [][/\ InputTurn =>
              /\ IsPrefix(chat_history, chat_history')
              /\ ~last_op'.raised =>
                     Len(chat_history') - Len(chat_history) \in {1, 2}
       /\ (program = "app" /\ UploadDone(last_op')) =>
              chat_history' = <<<<"Bot", FILE_PROCESSED>>>>
       /\ (program = "app" /\ UploadFailed(last_op')) =>
              chat_history' = chat_history]_vars

\* an upload during a feedback round left a transcript of one turn
C20_Witness ==
    /\ program = "app"
    /\ UploadDone(last_op)
    /\ last_op.from = "waiting_for_feedback"
    /\ feedback_count = 0
    /\ chat_history = <<<<"Bot", FILE_PROCESSED>>>>

-----------------------------------------------------------------------------
(* The "too vague" refinement called on its own                            *)

\* how far the longest context goes beyond context[:500]
MaxOverrun == 2

\* a text of n characters: one-letter words with single spaces between them,
\* so that every atom is one character
Letters(n, c) == [i \in 1..n |-> IF i % 2 = 1 THEN c ELSE SP]

RefinerContexts ==
    {Letters(n, c) : n \in {1, 3} \cup ((EXCERPT_LEN - 1)..(EXCERPT_LEN + MaxOverrun)),
                     c \in {"a", "b"}}

RefinerAnswers == {<<"days">>, <<"5-7", SP, "days">>, Sentinel}

\* the answers of the rounds so far, the first one being the initial answer
Answers == [i \in DOMAIN chat_history |-> chat_history[i][2]]

\* A session with a one-section document that the embedder places at the
\* query, and an answer to refine.  pc names the refiner that is called.
RefinerInit ==
    /\ program = "refiner"
    /\ pc \in {"handle_input", "adjust_response"}
    /\ \E context \in RefinerContexts, answer \in RefinerAnswers :
           /\ document_text = Some(context)
           /\ sections = Some(<<context>>)
           /\ embedder = [t \in {context, Q_SHIPPING} |-> 0]
           /\ section_embeddings = Some(EncodeAll(embedder, <<context>>))
           /\ last_answer = Some(answer)
           /\ response = Some(answer)
           /\ chat_history = <<<<"Bot", answer>>>>
    /\ current_query = Some(Q_SHIPPING)
    /\ query = Some(Q_SHIPPING)
    /\ feedback_count = 0
    /\ mode = "waiting_for_feedback"
    /\ rounds = 0
    /\ resolved = None
    /\ last_op = Op("none", <<>>, "none", FALSE, <<>>)
    /\ qa_log = <<>>
    /\ refinements = 0
    /\ faults = 0
    /\ threads = NoThreads

\* one "too vague" round: lines 124-126 and 133-134 of app.py, or
\* adjust_response(query, response, "too vague")
RefineTooVague ==
    LET adjusted ==
            IF pc = "handle_input"
            THEN AdjustedAnswer(TOO_VAGUE, Get(current_query), Get(last_answer),
                                Context(Get(current_query)))
            ELSE AdjustResponse(Get(query), Get(response), TOO_VAGUE)
    IN  /\ program = "refiner"
        /\ LoopContinues(rounds)
        /\ last_answer' = Some(adjusted)
        /\ response' = Some(adjusted)
        /\ rounds' = rounds + 1
        /\ feedback_count' = NextCount(feedback_count)
        /\ chat_history' = Append(chat_history, <<"Bot", adjusted>>)
        /\ UNCHANGED <<program, embedder, document_text, sections,
                       section_embeddings, current_query, mode, pc, query,
                       resolved, last_op, qa_log, refinements, faults, threads>>

RefinerNext == RefineTooVague

RefinerSpec == RefinerInit /\ [][RefinerNext]_vars

\* the marker between the prior answer and the excerpt
MARKER == <<NL, NL, "(More", SP, "details:", NL>>

\* at most the first 500 characters of the context
Excerpt(context) ==
    CHOOSE e \in {SubSeq(context, 1, n) : n \in 0..Len(context)} :
        /\ Len(e) <= 500
        /\ Len(e) < Len(context) => Len(e) = 500

\* C19: after every "too vague" refinement the new answer is the prior answer
\* followed by the marker text, at most the first 500 characters of the
\* resolved context and the closing "...)"; the prior answer is a prefix of
\* the new one, also across two consecutive rounds.
C19_TooVagueAppends ==
    program = "refiner" =>
        /\ \A k \in 2..Len(Answers) :
               /\ Answers[k] = Answers[k - 1] \o MARKER
                                   \o Excerpt(Get(sections)[1]) \o <<"...)">>
               /\ IsPrefix(Answers[k - 1], Answers[k])
               /\ Len(Answers[k]) <= Len(Answers[k - 1]) + Len(MARKER) + 500 + 1
        /\ \A k \in DOMAIN Answers : IsPrefix(Answers[1], Answers[k])
        /\ Get(last_answer) = Answers[Len(Answers)]

\* two consecutive rounds over a context of more than 500 characters
C19_Witness ==
    /\ program = "refiner"
    /\ pc = "handle_input"
    /\ Len(Answers) = 3
    /\ Len(Get(sections)[1]) > 500
    /\ Len(Answers[3]) = Len(Answers[1]) + 2 * (Len(MARKER) + 500 + 1)

-----------------------------------------------------------------------------
(* src/app.py: process_file and handle_input overlapping on one session.   *)
(* file_upload.upload and submit_btn.click are separate event listeners;   *)
(* both handlers get the same state dict and run in worker threads, so the *)
(* statements of one call interleave with those of the other.  No lock is  *)
(* taken in the code.                                                      *)

\* the uploads started in one run
MaxUploads == 2

\* the transcript length up to which handle_input is called
MaxOverlapHistory == 3

\* the files process_file gets past line 79 with; for the others it returns
\* or raises before any assignment to state
LoadedFiles == {f \in Files : Supported(f) /\ f.readable}

ConcurrentInit ==
    /\ program = "concurrent"
    /\ embedder \in Embedders
    /\ document_text = None
    /\ sections = None
    /\ section_embeddings = None
    /\ current_query = None
    /\ feedback_count = 0
    /\ mode = "waiting_for_upload"
    /\ chat_history = <<<<"Bot", GREETING>>>>
    /\ last_answer = None
    /\ pc = "off"
    /\ query = None
    /\ response = None
    /\ rounds = 0
    /\ resolved = None
    /\ last_op = Op("none", <<>>, "none", FALSE, <<>>)
    /\ qa_log = <<>>
    /\ refinements = 0
    /\ faults = 0
    /\ threads = NoThreads

\* what no step of the two threads changes
ThreadFrame ==
    UNCHANGED <<program, embedder, agent, resolved, last_op, qa_log,
                refinements, faults>>

\* process_file, lines 62-79: the text is read, split and embedded into
\* local variables
UploadBegin(file) ==
    LET text == FileText(file)
        new_sections == SplitParagraphs(text)
    IN  /\ program = "concurrent"
        /\ threads.process_file.pc = "idle"
        /\ threads.uploads < MaxUploads
        /\ threads' = [threads EXCEPT
               !.uploads = @ + 1,
               !.process_file = [pc |-> "line80", text |-> text,
                                 sections |-> new_sections,
                                 section_embeddings |-> BuildIndex(new_sections),
                                 upload |-> threads.uploads + 1]]
        /\ UNCHANGED session
        /\ ThreadFrame

\* process_file, lines 80-86: one assignment to state per step
UploadAssign ==
    LET my == threads.process_file
        goto(line) == [threads EXCEPT !.process_file.pc = line]
    IN  /\ program = "concurrent"
        /\ my.pc # "idle"
        /\ CASE my.pc = "line80" ->
                    /\ document_text' = Some(my.text)
                    /\ threads' = goto("line81")
                    /\ UNCHANGED <<sections, section_embeddings, current_query,
                                   feedback_count, mode, chat_history>>
             [] my.pc = "line81" ->
                    /\ sections' = Some(my.sections)
                    /\ threads' = [goto("line82") EXCEPT !.sections_of = my.upload]
                    /\ UNCHANGED <<document_text, section_embeddings,
                                   current_query, feedback_count, mode,
                                   chat_history>>
             [] my.pc = "line82" ->
                    /\ section_embeddings' = Some(my.section_embeddings)
                    /\ threads' = [goto("line83") EXCEPT
                                       !.section_embeddings_of = my.upload]
                    /\ UNCHANGED <<document_text, sections, current_query,
                                   feedback_count, mode, chat_history>>
             [] my.pc = "line83" ->
                    /\ current_query' = None
                    /\ threads' = goto("line84")
                    /\ UNCHANGED <<document_text, sections, section_embeddings,
                                   feedback_count, mode, chat_history>>
             [] my.pc = "line84" ->
                    /\ feedback_count' = UploadCount(feedback_count)
                    /\ threads' = goto("line85")
                    /\ UNCHANGED <<document_text, sections, section_embeddings,
                                   current_query, mode, chat_history>>
             [] my.pc = "line85" ->
                    /\ mode' = "waiting_for_query"
                    /\ threads' = goto("line86")
                    /\ UNCHANGED <<document_text, sections, section_embeddings,
                                   current_query, feedback_count, chat_history>>
             [] my.pc = "line86" ->
                    /\ chat_history' = <<<<"Bot", FILE_PROCESSED>>>>
                    /\ threads' = [threads EXCEPT !.process_file = UploadIdle]
                    /\ UNCHANGED <<document_text, sections, section_embeddings,
                                   current_query, feedback_count, mode>>
        /\ UNCHANGED last_answer
        /\ ThreadFrame

\* handle_input up to the call of find_relevant_section: lines 92-94, 95-98,
\* or 110-123; the branches that resolve no context run to their end
InputBegin(user_input) ==
    LET feedback == Lower(user_input)
        heard == Append(chat_history, <<"User", feedback>>)
        reads(branch, q) ==
            [threads EXCEPT !.handle_input =
                [InputIdle EXCEPT !.pc = "sections", !.branch = branch,
                                  !.query = q, !.feedback = feedback]]
    IN  /\ program = "concurrent"
        /\ threads.handle_input.pc = "idle"
        /\ Len(chat_history) <= MaxOverlapHistory
        /\ CASE mode = "waiting_for_upload" ->
                    /\ chat_history' = Append(chat_history, <<"Bot", UPLOAD_FIRST>>)
                    /\ UNCHANGED <<current_query, feedback_count, mode, threads>>
             [] mode = "waiting_for_query" ->
                    /\ user_input \in Queries
                    /\ current_query' = Some(user_input)
                    /\ feedback_count' = NewQueryCount(feedback_count)
                    /\ threads' = reads("query", Some(user_input))
                    /\ UNCHANGED <<mode, chat_history>>
             [] mode = "waiting_for_feedback" ->
                    /\ user_input \in Feedbacks
                    /\ IF FeedbackOver(feedback, feedback_count)
                       THEN /\ mode' = "waiting_for_query"
                            /\ chat_history' = Append(heard,
                                   <<"Bot", IF feedback = GOOD THEN THANK_YOU
                                            ELSE MAX_REACHED>>)
                            /\ UNCHANGED threads
                       ELSE /\ chat_history' = heard
                            /\ threads' = reads("feedback", current_query)
                            /\ UNCHANGED mode
                    /\ UNCHANGED <<current_query, feedback_count>>
        /\ UNCHANGED <<document_text, sections, section_embeddings, last_answer>>
        /\ ThreadFrame

\* the arguments of find_relevant_section are evaluated left to right:
\* state['sections'] is read first
InputReadSections ==
    /\ program = "concurrent"
    /\ threads.handle_input.pc = "sections"
    /\ threads' = [threads EXCEPT
           !.handle_input.pc = "section_embeddings",
           !.handle_input.sections = sections,
           !.handle_input.sections_of = threads.sections_of]
    /\ UNCHANGED session
    /\ ThreadFrame

\* state['section_embeddings'] is read second
InputReadIndex ==
    /\ program = "concurrent"
    /\ threads.handle_input.pc = "section_embeddings"
    /\ threads' = [threads EXCEPT
           !.handle_input.pc = "resolve",
           !.handle_input.section_embeddings = section_embeddings,
           !.handle_input.section_embeddings_of = threads.section_embeddings_of]
    /\ UNCHANGED session
    /\ ThreadFrame

\* handle_input from the call of find_relevant_section to its return: lines
\* 99-109 or 124-136.  With current_query None (an upload has cleared it)
\* embedder.encode raises and the call ends there.
InputResolve ==
    LET my == threads.handle_input
        q == Get(my.query)
        context == FindRelevantSection(embedder, q, Get(my.sections),
                                       Get(my.section_embeddings))
        answer == IF PassThrough(context) THEN context ELSE QaModel(q, context)
        adjusted_answer == AdjustedAnswer(my.feedback, q, Get(last_answer), context)
    IN  /\ program = "concurrent"
        /\ my.pc = "resolve"
        /\ threads' = [threads EXCEPT !.handle_input = InputIdle]
        /\ IF my.query = None
           THEN UNCHANGED <<last_answer, mode, chat_history, feedback_count>>
           ELSE IF my.branch = "query"
           THEN /\ last_answer' = Some(answer)
                /\ mode' = "waiting_for_feedback"
                /\ chat_history' = chat_history
                       \o <<<<"User", q>>, <<"Bot", AnswerMessage(answer)>>>>
                /\ UNCHANGED feedback_count
           ELSE IF Refines(my.feedback)
           THEN /\ last_answer' = Some(adjusted_answer)
                /\ feedback_count' = NextCount(feedback_count)
                /\ chat_history' = Append(chat_history,
                                          <<"Bot", UpdatedMessage(adjusted_answer)>>)
                /\ UNCHANGED mode
           ELSE /\ chat_history' = Append(chat_history, <<"Bot", INVALID_FEEDBACK>>)
                /\ UNCHANGED <<last_answer, mode, feedback_count>>
        /\ UNCHANGED <<document_text, sections, section_embeddings, current_query>>
        /\ ThreadFrame

ConcurrentNext ==
    \/ \E file \in LoadedFiles : UploadBegin(file)
    \/ UploadAssign
    \/ \E user_input \in Queries \cup Feedbacks : InputBegin(user_input)
    \/ InputReadSections
    \/ InputReadIndex
    \/ InputResolve

ConcurrentSpec == ConcurrentInit /\ [][ConcurrentNext]_vars

\* C14: when process_file and handle_input overlap on one session, the
\* resolver is never called with the sections of one upload and the index of
\* another.
C14_SectionsAndIndexOfOneUpload ==
    (program = "concurrent" /\ threads.handle_input.pc = "resolve") =>
        threads.handle_input.sections_of =
            threads.handle_input.section_embeddings_of

=============================================================================
